---- MODULE Spec2Model ----
(***************************************************************************)
(* Persona Retention Dashboard (PersonaRetentionDashboard.jsx).            *)
(*                                                                         *)
(* A JavaScript string is a sequence of one-character strings, so that     *)
(* trimming, regular expressions, substring search and concatenation are   *)
(* modelled on characters.  The value undefined is the one-element tuple   *)
(* Undefined, null is Null, a number or a fraction that may be null is     *)
(* wrapped by Some.  A JavaScript object is the sequence of its <<key,     *)
(* value>> pairs in Object.keys order (no key of the model is an integer   *)
(* index, so that order is insertion order).                               *)
(***************************************************************************)
EXTENDS Integers, Sequences, FiniteSets, TLC

Undefined == <<"undefined">>
Null == <<>>
Some(v) == <<v>>
BOM == "BOM"

----------------------------------------------------------------------------
(* String helpers of the JavaScript runtime *)

WhiteSpace == {" ", "\t", "\n", "\r", BOM}
Digits == {"0", "1", "2", "3", "4", "5", "6", "7", "8", "9"}

UpperToLower ==
  [c \in {"A","B","C","D","E","F","G","H","I","J","K","L","M","N","O","P","Q",
          "R","S","T","U","V","W","X","Y","Z"} |->
     CASE c = "A" -> "a" [] c = "B" -> "b" [] c = "C" -> "c" [] c = "D" -> "d"
       [] c = "E" -> "e" [] c = "F" -> "f" [] c = "G" -> "g" [] c = "H" -> "h"
       [] c = "I" -> "i" [] c = "J" -> "j" [] c = "K" -> "k" [] c = "L" -> "l"
       [] c = "M" -> "m" [] c = "N" -> "n" [] c = "O" -> "o" [] c = "P" -> "p"
       [] c = "Q" -> "q" [] c = "R" -> "r" [] c = "S" -> "s" [] c = "T" -> "t"
       [] c = "U" -> "u" [] c = "V" -> "v" [] c = "W" -> "w" [] c = "X" -> "x"
       [] c = "Y" -> "y" [] c = "Z" -> "z"]

ToLowerCase(s) ==
  [i \in 1..Len(s) |-> IF s[i] \in DOMAIN UpperToLower THEN UpperToLower[s[i]] ELSE s[i]]

RECURSIVE TrimStart(_)
TrimStart(s) ==
  IF s = <<>> THEN s
  ELSE IF Head(s) \in WhiteSpace THEN TrimStart(Tail(s)) ELSE s

RECURSIVE TrimEnd(_)
TrimEnd(s) ==
  IF s = <<>> THEN s
  ELSE IF s[Len(s)] \in WhiteSpace THEN TrimEnd(SubSeq(s, 1, Len(s) - 1)) ELSE s

Trim(s) == TrimEnd(TrimStart(s))

\* String.prototype.includes
Includes(t, kw) ==
  \E i \in 0..(Len(t) - Len(kw)) : SubSeq(t, i + 1, i + Len(kw)) = kw

\* the number of occurrences of the character c in s
CountChar(s, c) == Cardinality({i \in 1..Len(s) : s[i] = c})

\* x || y on values that are strings or undefined
Truthy(v) == v # Undefined /\ v # <<>>
Or(a, b) == IF Truthy(a) THEN a ELSE b

\* text.replace(/^\uFEFF/, "")
StripBOM(s) == IF s # <<>> /\ Head(s) = BOM THEN Tail(s) ELSE s

\* raw.split(/\r?\n/)[0]
FirstLine(raw) ==
  LET nl == {i \in 1..Len(raw) : raw[i] = "\n"}
  IN  IF nl = {} THEN raw
      ELSE LET n == CHOOSE i \in nl : \A j \in nl : i <= j
           IN  IF n > 1 /\ raw[n - 1] = "\r" THEN SubSeq(raw, 1, n - 2)
               ELSE SubSeq(raw, 1, n - 1)

\* Number.prototype.toString for a natural number
RECURSIVE NatToString(_)
NatToString(n) ==
  LET d == <<"0", "1", "2", "3", "4", "5", "6", "7", "8", "9">>[(n % 10) + 1]
  IN  IF n < 10 THEN <<d>> ELSE Append(NatToString(n \div 10), d)

DigitValue(c) ==
  CASE c = "0" -> 0 [] c = "1" -> 1 [] c = "2" -> 2 [] c = "3" -> 3 [] c = "4" -> 4
    [] c = "5" -> 5 [] c = "6" -> 6 [] c = "7" -> 7 [] c = "8" -> 8 [] c = "9" -> 9

\* the value of the leading digits of s
RECURSIVE DigitsValue(_, _)
DigitsValue(s, acc) ==
  IF s = <<>> \/ Head(s) \notin Digits THEN acc
  ELSE DigitsValue(Tail(s), 10 * acc + DigitValue(Head(s)))

\* parseInt(x, 10): Some(n) for the leading digits, after leading white space
\* and a sign, NaN (Null) when there is no digit
ParseInt(x) ==
  LET t == TrimStart(x)
      neg == t # <<>> /\ Head(t) = "-"
      u == IF t # <<>> /\ Head(t) \in {"-", "+"} THEN Tail(t) ELSE t
  IN  IF u = <<>> \/ Head(u) \notin Digits THEN Null
      ELSE Some(IF neg THEN -DigitsValue(u, 0) ELSE DigitsValue(u, 0))

\* String.prototype.padStart(2, "0")
PadStart2(s) == IF Len(s) < 2 THEN <<"0">> \o s ELSE s

\* String.prototype.split(sep) for a one-character separator; cur is the part
\* being read
RECURSIVE Split(_, _, _)
Split(s, sep, cur) ==
  IF s = <<>> THEN <<cur>>
  ELSE IF Head(s) = sep THEN <<cur>> \o Split(Tail(s), sep, <<>>)
       ELSE Split(Tail(s), sep, Append(cur, Head(s)))

\* localeCompare(a, b) < 0 on the characters of the model: punctuation before
\* digits before letters, a string before its extensions
Letters ==
  <<"a","b","c","d","e","f","g","h","i","j","k","l","m","n","o","p","q","r","s","t","u",
    "v","w","x","y","z">>

CharRank(c) ==
  LET l == IF c \in DOMAIN UpperToLower THEN UpperToLower[c] ELSE c
  IN  IF c \in Digits THEN 10 + DigitValue(c)
      ELSE IF \E k \in 1..26 : Letters[k] = l
           THEN 20 + (CHOOSE k \in 1..26 : Letters[k] = l)
      ELSE CASE c = "_" -> 0 [] c = "-" -> 1 [] c = " " -> 2 [] OTHER -> 3

RECURSIVE LocaleLess(_, _)
LocaleLess(a, b) ==
  IF b = <<>> THEN FALSE
  ELSE IF a = <<>> THEN TRUE
  ELSE IF Head(a) = Head(b) THEN LocaleLess(Tail(a), Tail(b))
  ELSE CharRank(Head(a)) < CharRank(Head(b))

----------------------------------------------------------------------------
(* JavaScript objects *)

HasKey(obj, k) == \E i \in 1..Len(obj) : obj[i][1] = k

\* obj[k]
Get(obj, k) ==
  IF HasKey(obj, k) THEN obj[CHOOSE i \in 1..Len(obj) : obj[i][1] = k][2]
  ELSE Undefined

\* obj[k] = v
Put(obj, k, v) ==
  IF HasKey(obj, k)
  THEN [i \in 1..Len(obj) |-> IF obj[i][1] = k THEN <<k, v>> ELSE obj[i]]
  ELSE Append(obj, <<k, v>>)

\* Object.keys(obj)
Keys(obj) == [i \in 1..Len(obj) |-> obj[i][1]]

----------------------------------------------------------------------------
(* detectDelimiter and parseCSV *)

\* detectDelimiter with the seeded fault of a tie of commas and semicolons going
\* to the semicolon
detectDelimiterTie(firstLine) ==
  LET line   == StripBOM(firstLine)
      commas == CountChar(line, ",")
      semis  == CountChar(line, ";")
      tabs   == CountChar(line, "\t")
  IN  IF semis >= commas /\ semis >= tabs /\ semis > 0 THEN ";"
      ELSE IF tabs > commas /\ tabs > semis THEN "\t"
      ELSE ","

detectDelimiter(firstLine) ==
  LET line   == StripBOM(firstLine)
      commas == CountChar(line, ",")
      semis  == CountChar(line, ";")
      tabs   == CountChar(line, "\t")
  IN  IF semis > commas /\ semis >= tabs THEN ";"
      ELSE IF tabs > commas /\ tabs > semis THEN "\t"
      ELSE ","

\* the scanner's variables before the loop
ScanInit == [i |-> 0, field |-> <<>>, row |-> <<>>, rows |-> <<>>, inQuotes |-> FALSE]

\* ScanStep with the seeded fault of a carriage return outside quotes that is
\* not consumed: the read position stays where it is
ScanStepStuckCR(raw, DELIM, s) ==
  LET c == raw[s.i + 1]
      next == IF s.i + 2 <= Len(raw) THEN raw[s.i + 2] ELSE Undefined
  IN  IF s.inQuotes
      THEN IF c = "\""
           THEN IF next = "\""
                THEN [s EXCEPT !.field = Append(@, "\""), !.i = @ + 2]
                ELSE [s EXCEPT !.inQuotes = FALSE, !.i = @ + 1]
           ELSE [s EXCEPT !.field = Append(@, c), !.i = @ + 1]
      ELSE IF c = "\"" THEN [s EXCEPT !.inQuotes = TRUE, !.i = @ + 1]
      ELSE IF c = DELIM
           THEN [s EXCEPT !.row = Append(@, s.field), !.field = <<>>, !.i = @ + 1]
      ELSE IF c = "\n"
           THEN [s EXCEPT !.rows = Append(@, Append(s.row, s.field)),
                          !.row = <<>>, !.field = <<>>, !.i = @ + 1]
      ELSE IF c = "\r" THEN s
      ELSE [s EXCEPT !.field = Append(@, c), !.i = @ + 1]

\* ScanStep with the seeded fault of no escape: a double quote inside quotes
\* ends the quoted part, whatever follows it
ScanStepNoEscape(raw, DELIM, s) ==
  LET c == raw[s.i + 1]
  IN  IF s.inQuotes
      THEN IF c = "\"" THEN [s EXCEPT !.inQuotes = FALSE, !.i = @ + 1]
           ELSE [s EXCEPT !.field = Append(@, c), !.i = @ + 1]
      ELSE IF c = "\"" THEN [s EXCEPT !.inQuotes = TRUE, !.i = @ + 1]
      ELSE IF c = DELIM
           THEN [s EXCEPT !.row = Append(@, s.field), !.field = <<>>, !.i = @ + 1]
      ELSE IF c = "\n"
           THEN [s EXCEPT !.rows = Append(@, Append(s.row, s.field)),
                          !.row = <<>>, !.field = <<>>, !.i = @ + 1]
      ELSE IF c = "\r" THEN [s EXCEPT !.i = @ + 1]
      ELSE [s EXCEPT !.field = Append(@, c), !.i = @ + 1]

\* one iteration of the scanner loop (i is 0-based as in the code)
ScanStep(raw, DELIM, s) ==
  LET c    == raw[s.i + 1]
      next == IF s.i + 2 <= Len(raw) THEN raw[s.i + 2] ELSE Undefined
  IN  IF s.inQuotes
      THEN IF c = "\""
           THEN IF next = "\""
                THEN [s EXCEPT !.field = Append(@, "\""), !.i = @ + 2]
                ELSE [s EXCEPT !.inQuotes = FALSE, !.i = @ + 1]
           ELSE [s EXCEPT !.field = Append(@, c), !.i = @ + 1]
      ELSE IF c = "\"" THEN [s EXCEPT !.inQuotes = TRUE, !.i = @ + 1]
      ELSE IF c = DELIM
           THEN [s EXCEPT !.row = Append(@, s.field), !.field = <<>>, !.i = @ + 1]
      ELSE IF c = "\n"
           THEN [s EXCEPT !.rows = Append(@, Append(s.row, s.field)),
                          !.row = <<>>, !.field = <<>>, !.i = @ + 1]
      ELSE IF c = "\r" THEN [s EXCEPT !.i = @ + 1]
      ELSE [s EXCEPT !.field = Append(@, c), !.i = @ + 1]

\* n iterations of the loop from s, an iteration being skipped once i has reached
\* the end of the input
RECURSIVE ScanSteps(_, _, _, _)
ScanSteps(raw, DELIM, s, n) ==
  IF n = 0 \/ s.i >= Len(raw) THEN s
  ELSE IF n = 1 THEN ScanStep(raw, DELIM, s)
  ELSE ScanSteps(raw, DELIM, ScanSteps(raw, DELIM, s, n \div 2), n - (n \div 2))

\* while (i < raw.length): every iteration advances i, so that there are at most
\* raw.length of them
ScanLoop(raw, DELIM, s) == ScanSteps(raw, DELIM, s, Len(raw))

\* the rows of fields after the loop, the last field and row pushed
ScanRows(raw, DELIM) ==
  LET s   == ScanLoop(raw, DELIM, ScanInit)
      row == Append(s.row, s.field)
  IN  IF Len(row) > 1 \/ row[1] # <<>> THEN Append(s.rows, row) ELSE s.rows

RECURSIVE RowObject(_, _, _)
RowObject(header, fields, c) ==
  IF c = 0 THEN <<>>
  ELSE Put(RowObject(header, fields, c - 1), header[c],
           IF c <= Len(fields) THEN fields[c] ELSE Undefined)

\* NonEmptyObject with the seeded fault of a test for a value instead of a test
\* for a non-blank value
NonEmptyObjectDefined(obj) ==
  \E i \in 1..Len(obj) : obj[i][2] # Undefined

NonEmptyObject(obj) ==
  \E i \in 1..Len(obj) : Trim(Or(obj[i][2], <<>>)) # <<>>

RECURSIVE HeaderKeyed(_, _, _)
HeaderKeyed(header, rows, r) ==
  IF r > Len(rows) THEN <<>>
  ELSE LET obj == RowObject(header, rows[r], Len(header))
       IN  (IF NonEmptyObject(obj) THEN <<obj>> ELSE <<>>)
             \o HeaderKeyed(header, rows, r + 1)

parseCSV(text) ==
  LET raw    == StripBOM(text)
      DELIM  == detectDelimiter(FirstLine(raw))
      rows   == ScanRows(raw, DELIM)
      header == IF rows = <<>> THEN <<>>
                ELSE [c \in 1..Len(rows[1]) |-> Trim(rows[1][c])]
  IN  IF header = <<>> \/ \A c \in 1..Len(header) : header[c] = <<>> THEN <<>>
      ELSE HeaderKeyed(header, rows, 2)

----------------------------------------------------------------------------
(* Stable Array.prototype.sort with a comparator that is a strict weak order: *)
(* an element goes after the elements that are less and after the earlier     *)
(* elements that are not greater. less[i][j] is the comparator's answer for    *)
(* the elements at the positions i and j of s                                  *)

Sort(less, s) ==
  LET pos(i) == 1 + Cardinality({j \in 1..Len(s) :
                     less[j][i] \/ (~less[i][j] /\ j < i)})
  IN  [k \in 1..Len(s) |-> s[CHOOSE i \in 1..Len(s) : pos(i) = k]]

\* the UTF-16 code unit order of the default sort, on the characters of the model
CodeUnit(c) ==
  IF c \in Digits THEN 48 + DigitValue(c)
  ELSE IF c \in DOMAIN UpperToLower
       THEN 64 + (CHOOSE k \in 1..26 : Letters[k] = UpperToLower[c])
  ELSE IF \E k \in 1..26 : Letters[k] = c
       THEN 96 + (CHOOSE k \in 1..26 : Letters[k] = c)
  ELSE CASE c = "\t" -> 9 [] c = "\n" -> 10 [] c = "\r" -> 13 [] c = " " -> 32
         [] c = "\"" -> 34 [] c = "," -> 44 [] c = "-" -> 45 [] c = "." -> 46
         [] c = "/" -> 47 [] c = ":" -> 58 [] c = ";" -> 59 [] c = "?" -> 63
         [] c = "_" -> 95 [] OTHER -> 65279

RECURSIVE CodeUnitLess(_, _)
CodeUnitLess(a, b) ==
  IF b = <<>> THEN FALSE
  ELSE IF a = <<>> THEN TRUE
  ELSE IF Head(a) = Head(b) THEN CodeUnitLess(Tail(a), Tail(b))
  ELSE CodeUnit(Head(a)) < CodeUnit(Head(b))

----------------------------------------------------------------------------
(* Column names *)

K_user_id == <<"u","s","e","r","_","i","d">>
K_userid == <<"u","s","e","r","i","d">>
K_user == <<"u","s","e","r">>
K_Network_ID == <<"N","e","t","w","o","r","k"," ","I","D">>
K_network_id == <<"n","e","t","w","o","r","k","_","i","d">>
K_month == <<"m","o","n","t","h">>
K_created_at == <<"c","r","e","a","t","e","d","_","a","t">>
K_Start_Date == <<"S","t","a","r","t"," ","D","a","t","e"," ","(","U","T","C",")">>
K_text == <<"t","e","x","t">>
K_message == <<"m","e","s","s","a","g","e">>
K_body == <<"b","o","d","y">>
K_active_next_month ==
  <<"a","c","t","i","v","e","_","n","e","x","t","_","m","o","n","t","h">>
K_beschrijf == <<"b","e","s","c","h","r","i","j","f">>
K_suggestie == <<"s","u","g","g","e","s","t","i","e">>
K_exact ==
  <<"B","e","s","c","h","r","i","j","f"," ","j","e"," ","s","u","g","g","e","s","t","i","e",
    " ","h","i","e","r","o","n","d","e","r"," ","z","o"," ","d","u","i","d","e","l","i","j",
    "k"," ","m","o","g","e","l","i","j","k","."," ","H","e","b"," ","j",".",".","."," ","v",
    "o","o","r","d","e","e","l"," ","k","a","n"," ","z","i","j","n"," ","v","o","o","r"," ",
    "j","e"," ","m","e","d","e","g","e","b","r","u","i","k","e","r","s","?"," ","L","a","a",
    "t"," ","d","i","t"," ","d","a","n"," ","w","e","t","e","n",".">>

----------------------------------------------------------------------------
(* Helpers of the dashboard *)

\* norm: (s || "").toString().toLowerCase()
norm(s) == ToLowerCase(Or(s, <<>>))

\* the heuristic loop of pickSuggestionText over Object.keys(obj)
RECURSIVE HeuristicColumn(_, _)
HeuristicColumn(obj, i) ==
  IF i > Len(obj) THEN Undefined
  ELSE LET lk == ToLowerCase(obj[i][1])
           v  == obj[i][2]
       IN  IF (Includes(lk, K_beschrijf) \/ Includes(lk, K_suggestie))
              /\ Truthy(v) /\ Trim(v) # <<>>
           THEN v
           ELSE HeuristicColumn(obj, i + 1)

pickSuggestionText(obj) ==
  LET exact == Get(obj, K_exact)
      heur  == HeuristicColumn(obj, 1)
  IN  IF Truthy(exact) /\ Trim(exact) # <<>> THEN exact
      ELSE IF heur # Undefined THEN heur
      ELSE IF Len(obj) >= 2 THEN obj[2][2]
      ELSE Or(Get(obj, K_text), Or(Get(obj, K_message), Or(Get(obj, K_body), <<>>)))

\* /^\d{4}-\d{2}/ at offset i (0-based) of t
MonthPatternAt(t, i) ==
  /\ i + 7 <= Len(t)
  /\ \A k \in {1, 2, 3, 4, 6, 7} : t[i + k] \in Digits
  /\ t[i + 5] = "-"

\* new Date(t) followed by getFullYear() and getMonth() + 1: Some(<<year, month>>),
\* Null for an Invalid Date.  Of the strings that hold no YYYY-MM, the model reads
\* the form YYYY/MM/DD with a month 01..12 and a day 01..28, which every engine
\* reads as that local date; the other strings of the model hold no date.
NewDate(t) ==
  IF /\ Len(t) = 10
     /\ \A k \in {1, 2, 3, 4, 6, 7, 9, 10} : t[k] \in Digits
     /\ t[5] = "/" /\ t[8] = "/"
     /\ DigitsValue(SubSeq(t, 6, 7), 0) \in 1..12
     /\ DigitsValue(SubSeq(t, 9, 10), 0) \in 1..28
  THEN Some(<<DigitsValue(SubSeq(t, 1, 4), 0), DigitsValue(SubSeq(t, 6, 7), 0)>>)
  ELSE Null

\* monthFromDateString after const t = (s || "").trim()
MonthFromTrimmed(t) ==
  LET at == {i \in 0..Len(t) : MonthPatternAt(t, i)}
      d == NewDate(t)
  IN  IF t = <<>> THEN <<>>
      ELSE IF Len(t) = 7 /\ MonthPatternAt(t, 0) THEN t
      ELSE IF at # {}
           THEN LET i == CHOOSE i \in at : \A j \in at : i <= j
                IN  SubSeq(t, i + 1, i + 4) \o <<"-">> \o SubSeq(t, i + 6, i + 7)
      ELSE IF d = Null THEN <<>>
      ELSE NatToString(d[1][1]) \o <<"-">> \o PadStart2(NatToString(d[1][2]))

monthFromDateString(s) == MonthFromTrimmed(Trim(Or(s, <<>>)))

\* nextMonth from the parsed [y, m]; parseInt's NaN is Null
NextOf(y, m) ==
  IF y = Null \/ m = Null THEN <<>>
  ELSE IF y[1] = 0 \/ m[1] = 0 THEN <<>>
  ELSE LET ny == IF m[1] = 12 THEN y[1] + 1 ELSE y[1]
           nm == IF m[1] = 12 THEN 1 ELSE m[1] + 1
       IN  NatToString(ny) \o <<"-">> \o PadStart2(NatToString(nm))

\* [y, m] of the parts of the split
NextOfParts(parts) ==
  NextOf(ParseInt(parts[1]), IF Len(parts) >= 2 THEN ParseInt(parts[2]) ELSE Null)

nextMonth(yyyyMm) == NextOfParts(Split(Or(yyyyMm, <<>>), "-", <<>>))

----------------------------------------------------------------------------
(* Normalization: userMonthRows *)

\* the two underscores between the parts of a Map key
KeySep == <<"_", "_">>

\* the object a raw row is mapped to, Null when the row is dropped
\* (r.active_next_month ?? "").toString().trim()
ActiveNextMonthOf(anm) == Trim(IF anm = Undefined THEN <<>> ELSE anm)

\* if (!user_id || !month) return null; return { user_id, month, text, ... }
NormalizedObject(user_id, month, text, active_next_month) ==
  IF user_id = <<>> \/ month = <<>> THEN Null
  ELSE Some([user_id |-> user_id, month |-> month, text |-> text,
             active_next_month |-> active_next_month])

NormalizeRow(r, hasMonth) ==
  NormalizedObject(
    Trim(Or(Get(r, K_user_id), Or(Get(r, K_userid), Or(Get(r, K_user),
      Or(Get(r, K_Network_ID), Or(Get(r, K_network_id), <<>>)))))),
    IF hasMonth THEN monthFromDateString(Get(r, K_month))
    ELSE monthFromDateString(Or(Get(r, K_created_at), Get(r, K_Start_Date))),
    Or(pickSuggestionText(r), <<>>),
    ActiveNextMonthOf(Get(r, K_active_next_month)))

\* rawRows.map(...).filter(Boolean)
RECURSIVE NormalizedRows(_, _, _)
NormalizedRows(rawRows, hasMonth, i) ==
  IF i > Len(rawRows) THEN <<>>
  ELSE NormalizeRow(rawRows[i], hasMonth) \o NormalizedRows(rawRows, hasMonth, i + 1)

\* MergeRow with the seeded fault of no lookup of the key: every row starts a
\* record of its own
MergeRowNoLookup(map, r) ==
  Append(map, [key |-> r.user_id \o KeySep \o r.month,
               value |-> [user_id |-> r.user_id, month |-> r.month, text |-> r.text,
                          active_next_month |-> r.active_next_month]])

\* MergeRow with the seeded fault of an unconditional assignment: the value of
\* the last row stands, be it empty
MergeRowLastValue(map, r) ==
  LET key == r.user_id \o KeySep \o r.month
      m1 == IF \E i \in 1..Len(map) : map[i].key = key THEN map
            ELSE Append(map, [key |-> key,
                              value |-> [user_id |-> r.user_id, month |-> r.month,
                                         text |-> <<>>,
                                         active_next_month |-> r.active_next_month]])
      at == CHOOSE i \in 1..Len(m1) : m1[i].key = key
      cur == m1[at].value
      text == (IF cur.text # <<>> THEN cur.text \o <<"\n">> ELSE <<>>) \o r.text
  IN  [m1 EXCEPT ![at].value =
         [cur EXCEPT !.text = text, !.active_next_month = r.active_next_month]]

\* one iteration of the aggregation loop on the Map (a sequence of
\* [key, value] in insertion order)
MergeRow(map, r) ==
  LET key == r.user_id \o KeySep \o r.month
      m1 == IF \E i \in 1..Len(map) : map[i].key = key THEN map
            ELSE Append(map, [key |-> key,
                              value |-> [user_id |-> r.user_id, month |-> r.month,
                                         text |-> <<>>,
                                         active_next_month |-> r.active_next_month]])
      at == CHOOSE i \in 1..Len(m1) : m1[i].key = key
      cur == m1[at].value
      text == (IF cur.text # <<>> THEN cur.text \o <<"\n">> ELSE <<>>) \o r.text
  IN  [m1 EXCEPT ![at].value =
         [cur EXCEPT !.text = text,
                     !.active_next_month =
                        IF r.active_next_month # <<>> THEN r.active_next_month ELSE @]]

RECURSIVE MergeRows(_, _)
MergeRows(map, rows) ==
  IF rows = <<>> THEN map ELSE MergeRows(MergeRow(map, Head(rows)), Tail(rows))

\* the comparator of the final sort
UserMonthLess(a, b) ==
  IF a.month = b.month THEN LocaleLess(a.user_id, b.user_id)
  ELSE LocaleLess(a.month, b.month)

\* Array.from(map.values()).sort(...)
SortedValues(map) ==
  Sort([i \in 1..Len(map) |->
          [j \in 1..Len(map) |-> UserMonthLess(map[i].value, map[j].value)]],
       [i \in 1..Len(map) |-> map[i].value])

userMonthRowsOf(rawRows) ==
  IF rawRows = <<>> THEN <<>>
  ELSE LET cols == Keys(rawRows[1])
           hasMonth == \E i \in 1..Len(cols) : cols[i] = K_month
       IN  SortedValues(MergeRows(<<>>, NormalizedRows(rawRows, hasMonth, 1)))

\* the presence index: the keys of the Map
presenceOf(umRows) ==
  {umRows[i].user_id \o KeySep \o umRows[i].month : i \in 1..Len(umRows)}

----------------------------------------------------------------------------
(* Persona model and classification *)

PERSONAS ==
  << [key |-> "trust_erosion", priority |-> 1],
     [key |-> "emotional", priority |-> 2],
     [key |-> "escalation", priority |-> 3],
     [key |-> "reliability", priority |-> 4],
     [key |-> "overload", priority |-> 5],
     [key |-> "veteran", priority |-> 6],
     [key |-> "suggestion", priority |-> 7] >>

PersonaKeys == {PERSONAS[i].key : i \in 1..Len(PERSONAS)}

\* persona: null
NoPersona == "null"

\* flags[p.key] = list.some((kw) => t.includes(norm(kw)))
personaFlags(text, kw) ==
  LET t == norm(text)
  IN  [k \in PersonaKeys |->
         LET list == IF k \in DOMAIN kw THEN kw[k] ELSE <<>>
         IN  \E i \in 1..Len(list) : Includes(t, norm(list[i]))]

\* PriorityLess with the seeded fault of a reversed comparison
PriorityLessReversed(a, b) == b.priority < a.priority

\* (a, b) => a.priority - b.priority
PriorityLess(a, b) == a.priority < b.priority

\* [...PERSONAS].sort((a, b) => a.priority - b.priority)
sorted ==
  Sort([i \in 1..Len(PERSONAS) |->
          [j \in 1..Len(PERSONAS) |-> PriorityLess(PERSONAS[i], PERSONAS[j])]],
       PERSONAS)

\* the result for the flags: the first persona of sorted whose flag is true
Dominant(flags) ==
  LET hits == {i \in 1..Len(sorted) : flags[sorted[i].key]}
  IN  [persona |-> IF hits = {} THEN NoPersona
                   ELSE sorted[CHOOSE i \in hits : \A j \in hits : i <= j].key,
       flags |-> flags]

classifyDominantPersona(text, kw) == Dominant(personaFlags(text, kw))

----------------------------------------------------------------------------
(* Fractions: the quotient retained / users and its differences, kept exact *)
(* as <<numerator, denominator>> in lowest terms with a positive denominator *)

RECURSIVE GCD(_, _)
GCD(a, b) == IF b = 0 THEN a ELSE GCD(b, a % b)

Abs(n) == IF n < 0 THEN -n ELSE n

Frac(n, d) == LET g == GCD(Abs(n), d) IN <<n \div g, d \div g>>

FracSub(a, b) == Frac(a[1] * b[2] - b[1] * a[2], a[2] * b[2])

FracLess(a, b) == a[1] * b[2] < b[1] * a[2]

----------------------------------------------------------------------------
(* computed: classification, retention, aggregates and deltas *)

TrueStrings == {<<"1">>, <<"t","r","u","e">>, <<"y","e","s">>, <<"y">>}

\* activeNext with the seeded fault of a lookup of the record's own month
activeNextSameMonth(r, pres) ==
  IF r.active_next_month # <<>> THEN norm(r.active_next_month) \in TrueStrings
  ELSE (r.user_id \o KeySep \o r.month) \in pres

\* activeNext with the seeded fault of a fall-through: an explicit value that
\* does not say true leaves the decision to the presence index
activeNextFallThrough(r, pres) ==
  \/ norm(r.active_next_month) \in TrueStrings
  \/ (r.user_id \o KeySep \o nextMonth(r.month)) \in pres

\* the activeNext of a user-month record
activeNext(r, pres) ==
  IF r.active_next_month # <<>> THEN norm(r.active_next_month) \in TrueStrings
  ELSE (r.user_id \o KeySep \o nextMonth(r.month)) \in pres

\* { ...r, dominant_persona: c.persona, flags: c.flags, active_next_month }
Classified(r, c, an) ==
  [user_id |-> r.user_id, month |-> r.month, text |-> r.text,
   dominant_persona |-> c.persona, flags |-> c.flags, active_next_month |-> an]

classify(r, pres, kw) ==
  Classified(r, classifyDominantPersona(r.text, kw), activeNext(r, pres))

\* personasToCount with the seeded fault of counting every flagged persona in
\* both modes
personasToCountAllFlagged(r, mode) ==
  LET flagged(p) == r.flags[p.key]
      ps == SelectSeq(PERSONAS, flagged)
  IN  [i \in 1..Len(ps) |-> ps[i].key]

\* personasToCount with the seeded fault of ignoring the mode
personasToCountDominantOnly(r, mode) ==
  IF r.dominant_persona # NoPersona THEN <<r.dominant_persona>> ELSE <<>>

\* the personas a classified record is counted for
personasToCount(r, mode) ==
  IF mode = "dominant"
  THEN IF r.dominant_persona # NoPersona THEN <<r.dominant_persona>> ELSE <<>>
  ELSE LET flagged(p) == r.flags[p.key]
           ps == SelectSeq(PERSONAS, flagged)
       IN  [i \in 1..Len(ps) |-> ps[i].key]

\* CountRecord with the seeded fault of a missing else: the user is added to
\* churnedUsers whatever active_next_month is
CountRecordNoElse(agg, r, p) ==
  LET a1 == IF \E i \in 1..Len(agg) : agg[i].month = r.month /\ agg[i].persona = p
            THEN agg
            ELSE Append(agg, [month |-> r.month, persona |-> p, users |-> {},
                              retainedUsers |-> {}, churnedUsers |-> {}])
      at == CHOOSE i \in 1..Len(a1) : a1[i].month = r.month /\ a1[i].persona = p
  IN  [a1 EXCEPT ![at].users = @ \cup {r.user_id},
                 ![at].retainedUsers =
                    IF r.active_next_month THEN @ \cup {r.user_id} ELSE @,
                 ![at].churnedUsers = @ \cup {r.user_id}]

\* ensure(r.month, p) and the three Set.add of one record and one persona;
\* agg is the Map as the sequence of its values in insertion order
CountRecord(agg, r, p) ==
  LET a1 == IF \E i \in 1..Len(agg) : agg[i].month = r.month /\ agg[i].persona = p
            THEN agg
            ELSE Append(agg, [month |-> r.month, persona |-> p, users |-> {},
                              retainedUsers |-> {}, churnedUsers |-> {}])
      at == CHOOSE i \in 1..Len(a1) : a1[i].month = r.month /\ a1[i].persona = p
  IN  [a1 EXCEPT ![at].users = @ \cup {r.user_id},
                 ![at].retainedUsers =
                    IF r.active_next_month THEN @ \cup {r.user_id} ELSE @,
                 ![at].churnedUsers =
                    IF r.active_next_month THEN @ ELSE @ \cup {r.user_id}]

RECURSIVE CountPersonas(_, _, _)
CountPersonas(agg, r, ps) ==
  IF ps = <<>> THEN agg
  ELSE CountPersonas(CountRecord(agg, r, Head(ps)), r, Tail(ps))

RECURSIVE Aggregate(_, _, _)
Aggregate(agg, classified, mode) ==
  IF classified = <<>> THEN agg
  ELSE Aggregate(CountPersonas(agg, Head(classified),
                               personasToCount(Head(classified), mode)),
                 Tail(classified), mode)

\* one row of Array.from(agg.values()).map(...)
AggRow(a) ==
  LET users == Cardinality(a.users)
      retained == Cardinality(a.retainedUsers)
      churned == Cardinality(a.churnedUsers)
  IN  [month |-> a.month, persona |-> a.persona, users |-> users,
       retained |-> retained, churned |-> churned,
       retention |-> IF users # 0 THEN Frac(retained, users) ELSE <<0, 1>>]

\* the elements of s without repetition, in the order of their first occurrence
Distinct(s) ==
  LET first == {i \in 1..Len(s) : \A j \in 1..(i - 1) : s[j] # s[i]}
      isFirst(i) == i \in first
      idx == SelectSeq([i \in 1..Len(s) |-> i], isFirst)
  IN  [k \in 1..Len(idx) |-> s[idx[k]]]

\* (a, b) => a.month.localeCompare(b.month)
MonthLess(a, b) == LocaleLess(a.month, b.month)

\* MoM with the seeded fault of a zero for a month without aggregate: the
\* delta is against the calendar predecessor, taken as empty when it is absent
MoMZeroFill(arr) ==
  LET prev(i) == IF nextMonth(arr[i - 1].month) = arr[i].month THEN arr[i - 1]
                 ELSE [users |-> 0, retention |-> <<0, 1>>]
  IN  [i \in 1..Len(arr) |->
         [month |-> arr[i].month, persona |-> arr[i].persona, users |-> arr[i].users,
          retained |-> arr[i].retained, churned |-> arr[i].churned,
          retention |-> arr[i].retention,
          retention_mom |-> IF i > 1
                            THEN Some(FracSub(arr[i].retention, prev(i).retention))
                            ELSE Null,
          users_mom |-> IF i > 1 THEN Some(arr[i].users - prev(i).users) ELSE Null]]

\* the loop over the sorted rows of one persona: the deltas against arr[i - 1]
MoM(arr) ==
  [i \in 1..Len(arr) |->
     [month |-> arr[i].month, persona |-> arr[i].persona, users |-> arr[i].users,
      retained |-> arr[i].retained, churned |-> arr[i].churned,
      retention |-> arr[i].retention,
      retention_mom |-> IF i > 1
                        THEN Some(FracSub(arr[i].retention, arr[i - 1].retention))
                        ELSE Null,
      users_mom |-> IF i > 1 THEN Some(arr[i].users - arr[i - 1].users) ELSE Null]]

\* the month-over-month deltas of one persona's rows: arr.sort(...) and the loop
WithMoM(rows) ==
  MoM(Sort([i \in 1..Len(rows) |->
              [j \in 1..Len(rows) |-> MonthLess(rows[i], rows[j])]], rows))

RECURSIVE Flat(_)
Flat(ss) == IF ss = <<>> THEN <<>> ELSE Head(ss) \o Flat(Tail(ss))

\* byPersona and outRows
outRowsOf(rows) ==
  LET personas == Distinct([i \in 1..Len(rows) |-> rows[i].persona])
  IN  Flat([k \in 1..Len(personas) |->
              LET ofPersona(r) == r.persona = personas[k]
              IN  WithMoM(SelectSeq(rows, ofPersona))])

\* the value of the computed memo (the chart series, which are presentation,
\* are left out)
\* Array.from(new Set(...)).sort() on the months ms
SortMonths(ms) ==
  Sort([i \in 1..Len(ms) |-> [j \in 1..Len(ms) |-> CodeUnitLess(ms[i], ms[j])]], ms)

\* Array.from(agg.values()).map(...)
AggRows(agg) == [i \in 1..Len(agg) |-> AggRow(agg[i])]

\* what the memo computes from the classified records
Computed(classified, mode) ==
  [classified |-> classified,
   outRows |-> outRowsOf(AggRows(Aggregate(<<>>, classified, mode))),
   months |-> SortMonths(Distinct([i \in 1..Len(classified) |-> classified[i].month]))]

computedOf(umRows, pres, kw, mode) ==
  Computed([i \in 1..Len(umRows) |-> classify(umRows[i], pres, kw)], mode)

\* filteredRows at query = "" and selectedPersona = "all" (their initial
\* values): the rows with users >= minUsers, months descending, then personas
\* ascending (localeCompare on the seven persona keys is their alphabetical
\* order)
filteredRows(outRows, mu) ==
  LET kept(r) == r.users >= mu
      rows == SelectSeq(outRows, kept)
      alphabetical == <<"emotional", "escalation", "overload", "reliability",
                        "suggestion", "trust_erosion", "veteran">>
      rank(p) == CHOOSE k \in 1..7 : alphabetical[k] = p
  IN  Sort([i \in 1..Len(rows) |->
              [j \in 1..Len(rows) |->
                 IF rows[i].month = rows[j].month
                 THEN rank(rows[i].persona) < rank(rows[j].persona)
                 ELSE CodeUnitLess(rows[j].month, rows[i].month)]], rows)

\* riskNotes: the titles of the notes
riskNotes(c, mu) ==
  IF c.months = <<>> THEN <<>>
  ELSE LET lastMonth == c.months[Len(c.months)]
           get(p) == LET found(r) == r.month = lastMonth /\ r.persona = p
                     IN  SelectSeq(c.outRows, found)
           trust == get("trust_erosion")
           emotional == get("emotional")
           escalation == get("escalation")
           suggestion == get("suggestion")
           up(a) == a[1].users_mom # Null /\ a[1].users_mom[1] > 0
           down(a) == a[1].users_mom # Null /\ a[1].users_mom[1] < 0
           notes ==
             (IF /\ trust # <<>>
                 /\ trust[1].users >= mu
                 /\ trust[1].retention_mom # Null
                 /\ trust[1].retention_mom[1][1] < 0
                 /\ up(trust)
              THEN <<"Trust erosion expanding + retention falling">> ELSE <<>>)
             \o (IF suggestion # <<>> /\ emotional # <<>> /\ down(suggestion) /\ up(emotional)
                 THEN <<"Constructive feedback drying up">> ELSE <<>>)
             \o (IF escalation # <<>> /\ up(escalation)
                 THEN <<"Escalation rising">> ELSE <<>>)
       IN  IF notes = <<>> THEN <<"No acute persona alarm">> ELSE notes

----------------------------------------------------------------------------
(* Constants of the component *)

DEFAULT_KEYWORDS ==
  [k \in PersonaKeys |->
     CASE k = "trust_erosion" ->
          <<<<"v","e","r","t","r","o","u","w","e","n">>,
            <<"b","e","t","r","o","u","w","b","a","a","r">>,
            <<"o","n","b","e","t","r","o","u","w","b","a","a","r">>,
            <<"i","k"," ","r","e","k","e","n"," ","h","i","e","r","o","p">>,
            <<"i","k"," ","d","u","r","f"," ","n","i","e","t">>,
            <<"k","a","n"," ","h","i","e","r"," ","n","i","e","t"," ","o","p"," ","v","e","r","t","r","o","u","w","e","n">>,
            <<"o","n","z","e","k","e","r">>,
            <<"v","o","e","l","t"," ","n","i","e","t"," ","v","e","i","l","i","g">>,
            <<"n","i","e","t"," ","v","e","i","l","i","g">> >>
       [] k = "veteran" ->
          <<<<"a","l"," ","j","a","r","e","n">>,
            <<"d","a","g","e","l","i","j","k","s">>,
            <<"e","l","k","e"," ","r","i","t">>,
            <<"a","l","t","i","j","d"," ","g","e","b","r","u","i","k","t">>,
            <<"s","i","n","d","s"," ","h","e","t"," ","b","e","g","i","n">>,
            <<"o","n","d","e","r","d","e","e","l"," ","v","a","n"," ","m","i","j","n"," ","r","o","u","t","i","n","e">>,
            <<"i","k"," ","b","e","n"," ","a","f","h","a","n","k","e","l","i","j","k">>,
            <<"a","f","h","a","n","k","e","l","i","j","k">>,
            <<"r","o","u","t","i","n","e">> >>
       [] k = "reliability" ->
          <<<<"o","n","v","o","o","r","s","p","e","l","b","a","a","r">>,
            <<"i","n","c","o","n","s","i","s","t","e","n","t">>,
            <<"w","e","r","k","t"," ","s","o","m","s">>,
            <<"s","o","m","s"," ","w","e","l">>,
            <<"s","o","m","s"," ","n","i","e","t">>,
            <<"w","i","s","s","e","l","e","n","d">>,
            <<"n","i","e","t"," ","c","o","n","s","e","q","u","e","n","t">>,
            <<"f","o","u","t","m","e","l","d","i","n","g","e","n">>,
            <<"v","a","l","t"," ","u","i","t">>,
            <<"c","r","a","s","h">>,
            <<"l","o","o","p","t"," ","v","a","s","t">> >>
       [] k = "escalation" ->
          <<<<"w","e","e","r">>,
            <<"o","p","n","i","e","u","w">>,
            <<"a","l"," ","v","a","k","e","r"," ","g","e","m","e","l","d">>,
            <<"n","i","e","t"," ","d","e"," ","e","e","r","s","t","e"," ","k","e","e","r">>,
            <<"a","l"," ","m","e","e","r","d","e","r","e"," ","k","e","r","e","n">>,
            <<"n","o","g"," ","s","t","e","e","d","s">>,
            <<"a","l"," ","e","e","n","s">>,
            <<"a","l"," ","g","e","m","e","l","d">> >>
       [] k = "overload" ->
          <<<<"i","k"," ","s","n","a","p"," ","n","i","e","t"," ","w","a","a","r","o","m">>,
            <<"o","n","d","u","i","d","e","l","i","j","k">>,
            <<"l","o","g","i","c","a"," ","o","n","t","b","r","e","e","k","t">>,
            <<"w","a","a","r","o","m"," ","d","o","e","t"," ","h","i","j"," ","d","i","t">>,
            <<"n","i","e","t"," ","u","i","t"," ","t","e"," ","l","e","g","g","e","n">>,
            <<"t","e","g","e","n","s","t","r","i","j","d","i","g">>,
            <<"k","l","o","p","t"," ","n","i","e","t">> >>
       [] k = "emotional" ->
          <<<<"f","r","u","s","t","r","e","r","e","n","d">>,
            <<"k","l","a","a","r"," ","m","e","e">>,
            <<"i","r","r","i","t","a","n","t">>,
            <<"t","e","l","e","u","r","g","e","s","t","e","l","d">>,
            <<"d","i","t"," ","w","e","r","k","t"," ","z","o"," ","n","i","e","t">>,
            <<"z","o"," ","w","o","r","d","t"," ","h","e","t"," ","l","a","s","t","i","g">>,
            <<"w","o","r","d"," ","i","k"," ","g","e","k"," ","v","a","n">> >>
       [] k = "suggestion" ->
          <<<<"z","o","u"," ","h","a","n","d","i","g"," ","z","i","j","n">>,
            <<"m","i","s","s","c","h","i","e","n"," ","k","u","n","n","e","n"," ","j","u","l","l","i","e">>,
            <<"i","k"," ","m","i","s">>,
            <<"i","k"," ","v","r","a","a","g"," ","m","e"," ","a","f"," ","w","a","a","r","o","m">>,
            <<"z","o","u"," ","f","i","j","n"," ","z","i","j","n">>,
            <<"k","u","n","n","e","n"," ","j","u","l","l","i","e">>,
            <<"i","d","e","e",":">> >>]

SAMPLE ==
  <<"u","s","e","r","_","i","d",",","m","o","n","t","h",",","t","e","x","t","\n","u","1",
    ",","2","0","2","5","-","0","9",",","\"","I","k"," ","r","e","k","e","n"," ","h","i",
    "e","r","o","p",","," ","m","a","a","r"," ","d","i","t"," ","v","o","e","l","t"," ","n",
    "i","e","t"," ","v","e","i","l","i","g",".","\"","\n","u","2",",","2","0","2","5","-",
    "0","9",",","\"","W","e","r","k","t"," ","s","o","m","s"," ","w","e","l"," ","s","o",
    "m","s"," ","n","i","e","t",","," ","a","l"," ","v","a","k","e","r"," ","g","e","m","e",
    "l","d",".","\"","\n","u","3",",","2","0","2","5","-","0","9",",","\"","Z","o","u"," ",
    "h","a","n","d","i","g"," ","z","i","j","n"," ","a","l","s"," ","j","u","l","l","i","e",
    " ","d","i","t"," ","t","o","e","v","o","e","g","e","n",".","\"","\n","u","1",",","2",
    "0","2","5","-","1","0",",","\"","N","o","g"," ","s","t","e","e","d","s"," ","o","n",
    "b","e","t","r","o","u","w","b","a","a","r","."," ","K","l","a","a","r"," ","m","e","e",
    ".","\"","\n","u","2",",","2","0","2","5","-","1","0",",","\"","O","p","n","i","e","u",
    "w"," ","f","o","u","t","m","e","l","d","i","n","g","e","n",".","\"","\n","u","3",",",
    "2","0","2","5","-","1","0",",","\"","I","k"," ","m","i","s"," ","e","e","n"," ","o",
    "p","t","i","e",","," ","o","n","d","u","i","d","e","l","i","j","k"," ","w","a","a","r",
    "o","m"," ","h","e","t"," ","z","o"," ","w","e","r","k","t",".","\"","\n">>

ParsedZeroRows ==
  "Parsed 0 rows. Check delimiter (comma/semicolon) or whether the file has a header row."
CouldNotRead == "Could not read the file."

\* the keyword field's onChange: value.split(",").map(trim).filter(Boolean)
KeywordParts(value) ==
  LET parts == Split(value, ",", <<>>)
      trimmed == [i \in 1..Len(parts) |-> Trim(parts[i])]
      nonEmpty(x) == x # <<>>
  IN  SelectSeq(trimmed, nonEmpty)

\* Math.round(file.size / 1024)
RoundKB(size) == (2 * size + 1024) \div 2048

----------------------------------------------------------------------------
(* Bounds and inputs *)

\* the number of data rows typed into the text area
MaxRows == 2
\* the number of file reads in flight
MaxReaders == 1
\* the number of lines typed under a first line
MaxLines == 2

Modes == {"dominant", "multi"}

U1 == <<"u","1">>
U2 == <<"u","2">>
M08 == <<"2","0","2","5","-","0","8">>
M09 == <<"2","0","2","5","-","0","9">>
M10 == <<"2","0","2","5","-","1","0">>
M13 == <<"2","0","2","5","-","1","3">>
Y0999M09 == <<"0","9","9","9","-","0","9">>
Y0999M10 == <<"0","9","9","9","-","1","0">>

\* two keyword dictionaries the keyword fields of the seven personas can be
\* edited to: one one-letter keyword per persona; and one with lists of several
\* keywords, upper-case keywords, empty lists and a keyword found in month strings
LetterKeywords ==
  [k \in PersonaKeys |->
     CASE k = "trust_erosion" -> << <<"t">> >>
       [] k = "emotional" -> << <<"e">> >>
       [] k = "escalation" -> << <<"s">> >>
       [] k = "reliability" -> << <<"r">> >>
       [] k = "overload" -> << <<"o">> >>
       [] k = "veteran" -> << <<"v">> >>
       [] k = "suggestion" -> << <<"g">> >>]

MixedKeywords ==
  [k \in PersonaKeys |->
     CASE k = "emotional" -> << <<"z","z">>, <<"T">> >>
       [] k = "reliability" -> << <<"v">>, <<"S">> >>
       [] k = "veteran" -> << <<"-","0">> >>
       [] k = "suggestion" -> << <<"o">> >>
       [] OTHER -> <<>>]

KeywordDicts == {LetterKeywords, MixedKeywords}

\* the cells of a typed row beside user and month: a text with an explicit 1,
\* an empty text with no active_next_month, another text with an explicit 0
FlaggedRetained == [text |-> <<"V","t">>, anm |-> <<"1">>]
EmptyInferred == [text |-> <<>>, anm |-> <<>>]
FlaggedChurned == [text |-> <<"s","o">>, anm |-> <<"0">>]
Payloads == {FlaggedRetained, EmptyInferred, FlaggedChurned}

\* the rows that can be typed: one user in three consecutive months, a second
\* user in the middle one, and rows with a month 13 and with a year below 1000
Rows ==
  [user : {U1}, month : {M08, M09, M10}, cell : Payloads]
    \cup [user : {U2}, month : {M09}, cell : Payloads]
    \cup [user : {U1}, month : {M13, Y0999M09, Y0999M10}, cell : {EmptyInferred}]

\* the header lines of the typed CSV texts: the aggregate shape and a shape with
\* the text in the second column
HeaderAggregate == <<"u","s","e","r","_","i","d",",","m","o","n","t","h",",","t","e","x","t",",","a","c","t","i","v","e","_","n","e","x","t","_","m","o","n","t","h">>
HeaderTextSecond == <<"u","s","e","r","_","i","d",",","t","e","x","t",",","m","o","n","t","h",",","a","c","t","i","v","e","_","n","e","x","t","_","m","o","n","t","h">>
PipelineHeaders == {HeaderAggregate \o <<"\n">>, HeaderTextSecond \o <<"\n">>}

\* the line of a typed row under the header of the text, cells in header order
RowLine(text, row) ==
  LET cols == Split(FirstLine(text), ",", <<>>)
      cell(k) == CASE k = K_user_id -> row.user
                   [] k = K_month -> row.month
                   [] k = K_text -> row.cell.text
                   [] k = K_active_next_month -> row.cell.anm
                   [] OTHER -> <<>>
      RECURSIVE join(_)
      join(i) == IF i > Len(cols) THEN <<"\n">>
                 ELSE (IF i > 1 THEN <<",">> ELSE <<>>) \o cell(cols[i]) \o join(i + 1)
  IN  join(1)

\* the end-to-end scenario of two rows, a header without rows
E2E_TEXT ==
  <<"u","s","e","r","_","i","d",",","m","o","n","t","h",",","t","e","x","t","\n","u","1",",","2","0","2","5","-","0","9",",","\"","I","k"," ","r","e","k","e","n"," ","h","i","e","r","o","p",","," ","m","a","a","r"," ","d","i","t"," ","v","o","e","l","t"," ","n","i","e","t"," ","v","e","i","l","i","g",".","\"","\n","u","1",",","2","0","2","5","-","1","0",",","\"","N","o","g"," ","s","t","e","e","d","s"," ","o","n","b","e","t","r","o","u","w","b","a","a","r","."," ","K","l","a","a","r"," ","m","e","e",".","\"","\n">>
HEADER_ONLY == <<"u","s","e","r","_","i","d",",","m","o","n","t","h",",","t","e","x","t","\n">>

\* the texts typed into the text area: the scenario, the header alone, the
\* scenario with the text as the second column
Texts ==
  { E2E_TEXT, HEADER_ONLY,
    <<"u","s","e","r","_","i","d",",","t","e","x","t",",","m","o","n","t","h","\n","u","1",",","\"","I","k"," ","r","e","k","e","n"," ","h","i","e","r","o","p",","," ","m","a","a","r"," ","d","i","t"," ","v","o","e","l","t"," ","n","i","e","t"," ","v","e","i","l","i","g",".","\"",",","2","0","2","5","-","0","9","\n","u","1",",","\"","N","o","g"," ","s","t","e","e","d","s"," ","o","n","b","e","t","r","o","u","w","b","a","a","r","."," ","K","l","a","a","r"," ","m","e","e",".","\"",",","2","0","2","5","-","1","0","\n">> }
Files == { [name |-> "e2e.csv", content |-> E2E_TEXT],
           [name |-> "header.csv", content |-> HEADER_ONLY] }
KeywordInputs == { <<"o","n","b","e","t","r","o","u","w","b","a","a","r",","," ","k","l","a","a","r"," ","m","e","e">> }
MinUsersInputs == { <<>>, <<"1">> }

----------------------------------------------------------------------------
(* State *)

VARIABLES
  csvText,        \* useState(SAMPLE)
  csvError,       \* useState("")
  csvInfo,        \* useState(""): <<>> or <<file name, size in KB>>
  keywords,       \* useState(DEFAULT_KEYWORDS)
  dominanceMode,  \* useState("dominant")
  minUsers,       \* useState(5)
  inputValue,     \* the value of the file input element
  readers,        \* the FileReaders that are reading: the file of each
  lastSubmitted,  \* history: the text of the input that was submitted last
  rawRows,        \* useMemo on csvText
  userMonthRows,  \* useMemo on rawRows
  presence,       \* useMemo on userMonthRows
  computed        \* useMemo on userMonthRows, keywords, presence, dominanceMode

inputs == <<csvText, csvError, csvInfo, keywords, dominanceMode, minUsers, inputValue, readers,
            lastSubmitted>>
memos == <<rawRows, userMonthRows, presence, computed>>
vars == <<inputs, memos>>

\* the memos of a render with the rows rr parsed from the CSV text, the keywords
\* kw and the mode
RenderRows(rr, kw, mode) ==
  /\ rawRows' = rr
  /\ userMonthRows' = userMonthRowsOf(rawRows')
  /\ presence' = presenceOf(userMonthRows')
  /\ computed' = computedOf(userMonthRows', presence', kw, mode)

\* the memos of a render in which the CSV text has not changed: a memo whose
\* dependencies have not changed keeps its value
RenderComputed(kw, mode) ==
  /\ UNCHANGED <<rawRows, userMonthRows, presence>>
  /\ computed' = IF kw = keywords /\ mode = dominanceMode THEN computed
                 ELSE computedOf(userMonthRows, presence, kw, mode)

\* the memos of a render with the CSV text t
Render(t, kw, mode) ==
  IF t = csvText THEN RenderComputed(kw, mode) ELSE RenderRows(parseCSV(t), kw, mode)

FirstRender(t, kw, mode) ==
  /\ rawRows = parseCSV(t)
  /\ userMonthRows = userMonthRowsOf(rawRows)
  /\ presence = presenceOf(userMonthRows)
  /\ computed = computedOf(userMonthRows, presence, kw, mode)

Init ==
  /\ csvText = SAMPLE
  /\ csvError = ""
  /\ csvInfo = <<>>
  /\ keywords = DEFAULT_KEYWORDS
  /\ dominanceMode = "dominant"
  /\ minUsers = 5
  /\ inputValue = ""
  /\ readers = <<>>
  /\ lastSubmitted = csvText
  /\ FirstRender(SAMPLE, DEFAULT_KEYWORDS, "dominant")

----------------------------------------------------------------------------
(* Handlers *)

\* setCsvText(e.target.value)
TextareaOnChange(value) ==
  /\ csvText' = value
  /\ lastSubmitted' = value
  /\ Render(value, keywords, dominanceMode)
  /\ UNCHANGED <<csvError, csvInfo, keywords, dominanceMode, minUsers, inputValue, readers>>

\* setCsvText(SAMPLE)
LoadSample == TextareaOnChange(SAMPLE)

\* the user picks a file: the input element takes its name, then handleUpload
HandleUpload(file) ==
  /\ Len(readers) < MaxReaders
  /\ csvError' = ""
  /\ csvInfo' = <<file.name, RoundKB(Len(file.content))>>
  /\ inputValue' = file.name
  /\ readers' = Append(readers, file)
  /\ lastSubmitted' = file.content
  /\ UNCHANGED <<csvText, keywords, dominanceMode, minUsers, memos>>

Remove(s, i) == SubSeq(s, 1, i - 1) \o SubSeq(s, i + 1, Len(s))

\* reader.onload of the i-th reader
ReaderOnload(i) ==
  LET txt == readers[i].content
      parsed == parseCSV(txt)
  IN  /\ csvText' = txt
      /\ csvError' = IF parsed = <<>> THEN ParsedZeroRows ELSE csvError
      /\ inputValue' = ""
      /\ readers' = Remove(readers, i)
      /\ IF txt = csvText THEN RenderComputed(keywords, dominanceMode)
         ELSE RenderRows(parsed, keywords, dominanceMode)
      /\ UNCHANGED <<csvInfo, keywords, dominanceMode, minUsers, lastSubmitted>>

\* ReaderOnerror with the seeded fault of a file input that is not reset
ReaderOnerrorKeepsInput(i) ==
  /\ csvError' = CouldNotRead
  /\ readers' = Remove(readers, i)
  /\ UNCHANGED <<csvText, csvInfo, keywords, dominanceMode, minUsers, inputValue,
                 lastSubmitted, memos>>

\* reader.onerror of the i-th reader
ReaderOnerror(i) ==
  /\ csvError' = CouldNotRead
  /\ inputValue' = ""
  /\ readers' = Remove(readers, i)
  /\ UNCHANGED <<csvText, csvInfo, keywords, dominanceMode, minUsers, lastSubmitted, memos>>

SetDominanceMode(mode) ==
  /\ dominanceMode' = mode
  /\ RenderComputed(keywords, mode)
  /\ UNCHANGED <<csvText, csvError, csvInfo, keywords, minUsers, inputValue, readers,
                 lastSubmitted>>

\* the onChange of the keyword field of persona p
SetKeywords(p, value) ==
  LET kw == [keywords EXCEPT ![p] = KeywordParts(value)]
  IN  /\ keywords' = kw
      /\ RenderComputed(kw, dominanceMode)
      /\ UNCHANGED <<csvText, csvError, csvInfo, dominanceMode, minUsers, inputValue, readers,
                     lastSubmitted>>

\* the onChange of the Min users field (a number field: its value is empty or
\* a number)
SetMinUsers(value) ==
  LET n == ParseInt(Or(value, <<"0">>))
  IN  /\ n # Null
      /\ minUsers' = IF n[1] > 0 THEN n[1] ELSE 0
      /\ UNCHANGED <<csvText, csvError, csvInfo, keywords, dominanceMode, inputValue,
                     readers, lastSubmitted, memos>>

Next ==
  \/ \E t \in Texts : TextareaOnChange(t)
  \/ LoadSample
  \/ \E f \in Files : HandleUpload(f)
  \/ \E i \in 1..Len(readers) : ReaderOnload(i)
  \/ \E i \in 1..Len(readers) : ReaderOnerror(i)
  \/ \E m \in Modes : SetDominanceMode(m)
  \/ \E v \in KeywordInputs : SetKeywords("trust_erosion", v)
  \/ \E v \in MinUsersInputs : SetMinUsers(v)

Spec == Init /\ [][Next]_vars

----------------------------------------------------------------------------
(* The pipeline on typed rows: the text area holds a header line and the rows *)
(* typed so far, under a keyword dictionary the keyword fields were edited to *)

InitPipeline ==
  /\ csvText \in PipelineHeaders
  /\ csvError = ""
  /\ csvInfo = <<>>
  /\ keywords \in KeywordDicts
  /\ dominanceMode \in Modes
  /\ minUsers = 5
  /\ inputValue = ""
  /\ readers = <<>>
  /\ lastSubmitted = csvText
  /\ FirstRender(csvText, keywords, dominanceMode)

\* the text area's onChange when a row is typed at the end of the text
TypeRow(row) ==
  /\ CountChar(csvText, "\n") <= MaxRows
  /\ TextareaOnChange(csvText \o RowLine(csvText, row))

NextPipeline ==
  \/ \E row \in Rows : TypeRow(row)
  \/ \E m \in Modes : SetDominanceMode(m)

SpecPipeline == InitPipeline /\ [][NextPipeline]_vars

----------------------------------------------------------------------------
(* Alerts: the text area holds a header, a first row and the rows typed so   *)
(* far, and the Min users field is edited                                    *)

InitAlerts ==
  /\ csvText = HeaderTextSecond \o <<"\n">>
                 \o RowLine(HeaderTextSecond, [user |-> U1, month |-> M08, cell |-> FlaggedChurned])
  /\ csvError = ""
  /\ csvInfo = <<>>
  /\ keywords = LetterKeywords
  /\ dominanceMode = "dominant"
  /\ minUsers = 5
  /\ inputValue = ""
  /\ readers = <<>>
  /\ lastSubmitted = csvText
  /\ FirstRender(csvText, keywords, dominanceMode)

NextAlerts ==
  \/ \E row \in Rows :
       /\ CountChar(csvText, "\n") <= MaxRows + 1
       /\ TextareaOnChange(csvText \o RowLine(csvText, row))
  \/ \E v \in MinUsersInputs : SetMinUsers(v)

SpecAlerts == InitAlerts /\ [][NextAlerts]_vars

----------------------------------------------------------------------------
(* Normalization of typed rows: the text area holds a header line with        *)
(* candidate user id columns and the rows typed so far                        *)

\* the header lines: all five user id columns; and only user and network_id
HeaderFiveIds == <<"u","s","e","r","_","i","d",",","t","e","x","t",",","u","s","e","r","i","d",",","u","s","e","r",",","N","e","t","w","o","r","k"," ","I","D",",","n","e","t","w","o","r","k","_","i","d",",","m","o","n","t","h",",","a","c","t","i","v","e","_","n","e","x","t","_","m","o","n","t","h">>
HeaderTwoIds == <<"u","s","e","r",",","t","e","x","t",",","n","e","t","w","o","r","k","_","i","d",",","m","o","n","t","h",",","a","c","t","i","v","e","_","n","e","x","t","_","m","o","n","t","h">>
NormalizeHeaders == {HeaderFiveIds \o <<"\n">>, HeaderTwoIds \o <<"\n">>}

\* the cells of the five user id columns of a typed row
IdCells(a, b, c, d, e) ==
  [user_id |-> a, userid |-> b, user |-> c, Network_ID |-> d, network_id |-> e]

\* the rows that can be typed: rows that differ in their user id cells (one
\* column filled, several filled, none filled, a blank before a filled one, an
\* id between blanks), rows without a month or with a text that is no month, and
\* rows with the explicit active_next_month values
NormalizeRows ==
  LET U3 == <<"u", "3">>
      U4 == <<"u", "4">>
      U5 == <<"u", "5">>
      Blank == <<" ">>
      OnlyU1 == IdCells(U1, <<>>, U1, <<>>, <<>>)
  IN  [ids : {IdCells(U1, <<>>, <<>>, <<>>, <<>>), IdCells(<<>>, U2, <<>>, <<>>, <<>>),
              IdCells(U1, U2, <<>>, <<>>, <<>>), IdCells(<<>>, <<>>, U3, U4, U5),
              IdCells(<<>>, <<>>, <<>>, U4, U5), IdCells(<<>>, <<>>, <<>>, <<>>, <<>>),
              IdCells(Blank, U2, U3, <<>>, U5),
              IdCells(Blank \o U1 \o Blank, <<>>, Blank \o U3, <<>>, <<>>)},
       month : {M09}, anm : {<<>>}]
        \cup [ids : {OnlyU1}, month : {<<>>, <<"x">>, M10}, anm : {<<>>}]
        \cup [ids : {OnlyU1}, month : {M09},
              anm : { <<"1">>, <<"t","r","u","e">>, <<"y","e","s">>, <<"y">>, <<"Y","E","S">>, <<"Y">>, <<"0">>, <<"n","o">>, <<"x">> }]

\* the line of a typed row under the header of the text, cells in header order
IdRowLine(text, row) ==
  LET cols == Split(FirstLine(text), ",", <<>>)
      cell(k) == CASE k = K_user_id -> row.ids.user_id
                   [] k = K_userid -> row.ids.userid
                   [] k = K_user -> row.ids.user
                   [] k = K_Network_ID -> row.ids.Network_ID
                   [] k = K_network_id -> row.ids.network_id
                   [] k = K_month -> row.month
                   [] k = K_text -> <<"a">>
                   [] k = K_active_next_month -> row.anm
                   [] OTHER -> <<>>
      RECURSIVE join(_)
      join(i) == IF i > Len(cols) THEN <<"\n">>
                 ELSE (IF i > 1 THEN <<",">> ELSE <<>>) \o cell(cols[i]) \o join(i + 1)
  IN  join(1)

InitNormalize ==
  /\ csvText \in NormalizeHeaders
  /\ csvError = ""
  /\ csvInfo = <<>>
  /\ keywords = LetterKeywords
  /\ dominanceMode = "dominant"
  /\ minUsers = 5
  /\ inputValue = ""
  /\ readers = <<>>
  /\ lastSubmitted = csvText
  /\ FirstRender(csvText, keywords, dominanceMode)

\* the text area's onChange when a row is typed at the end of the text
TypeIdRow(row) ==
  /\ CountChar(csvText, "\n") <= MaxRows
  /\ TextareaOnChange(csvText \o IdRowLine(csvText, row))

NextNormalize == \E row \in NormalizeRows : TypeIdRow(row)

SpecNormalize == InitNormalize /\ [][NextNormalize]_vars

----------------------------------------------------------------------------
(* Parsing of typed lines: the text area holds a first line and the lines     *)
(* typed under it                                                             *)

\* the first lines: they differ in their numbers of commas, semicolons and tabs
CsvFirstLines ==
  { <<"a",",","b",",","c",",","d">>,
    <<"a",",","b",";","c",";","d">>,
    <<"a",",","b",";","c">>,
    <<"a",";","b","\t","c">>,
    <<"a",";","b","\t","c","\t","d">>,
    <<"a",",","b","\t","c">>,
    <<"a","\t","b">>,
    <<"a">> }

\* the lines that can be typed: one with the three delimiters, an empty one, one
\* of blanks and delimiters, one that opens a quote, one that closes it, one
\* that ends with a carriage return
CsvLines ==
  { <<"1",",","2",";","3","\t","4">>,
    <<>>,
    <<" ",";",",">>,
    <<"\"","5",";","6">>,
    <<"7","\"">>,
    <<"8","\r">> }

\* the field contents that are typed as quoted fields: the content a,"b",c,
\* delimiters, line breaks, double quotes, blanks around a letter (none is
\* blank as a whole: a row whose fields are all blank is not returned)
QuotedContents ==
  { <<"a",",","\"","b","\"",",","c">>,
    <<";">>,
    <<"p","\t","q">>,
    <<"x","\n","y">>,
    <<"\r","\n","z">>,
    <<"\"">>,
    <<" ","x"," ">>,
    <<",","\"","\"",";">> }

\* the field content f as it is written in a CSV text: wrapped in double quotes,
\* every double quote of f doubled
RECURSIVE Doubled(_)
Doubled(f) ==
  IF f = <<>> THEN <<>>
  ELSE (IF Head(f) = "\"" THEN <<"\"", "\"">> ELSE <<Head(f)>>) \o Doubled(Tail(f))

QuoteField(f) == <<"\"">> \o Doubled(f) \o <<"\"">>

InitCSV ==
  /\ csvText \in CsvFirstLines
  /\ csvError = ""
  /\ csvInfo = <<>>
  /\ keywords = DEFAULT_KEYWORDS
  /\ dominanceMode = "dominant"
  /\ minUsers = 5
  /\ inputValue = ""
  /\ readers = <<>>
  /\ lastSubmitted = csvText
  /\ FirstRender(csvText, keywords, dominanceMode)

\* the text area's onChange when a line break and a line are typed at the end
TypeLine(line) ==
  /\ CountChar(csvText, "\n") < MaxLines
  /\ TextareaOnChange(csvText \o <<"\n">> \o line)

\* the text area's onChange when a line of one quoted field is typed at the end
TypeQuoted(f) == TypeLine(QuoteField(f))

NextCSV ==
  \/ \E line \in CsvLines : TypeLine(line)
  \/ \E f \in QuotedContents : TypeQuoted(f)

SpecCSV == InitCSV /\ [][NextCSV]_vars

----------------------------------------------------------------------------
(* Properties *)

classified == computed.classified
outRows == computed.outRows

\* the raw rows that are merged into the user-month record r, in input order
Contributing(r) ==
  LET cols == Keys(rawRows[1])
      hasMonth == \E i \in 1..Len(cols) : cols[i] = K_month
      into(i) == LET n == NormalizeRow(rawRows[i], hasMonth)
                 IN  n # Null /\ n[1].user_id = r.user_id /\ n[1].month = r.month
  IN  SelectSeq([i \in 1..Len(rawRows) |-> i], into)

\* the header of the parsed text is user_id, month, text[, active_next_month]
AggregateShape ==
  /\ rawRows # <<>>
  /\ Keys(rawRows[1]) \in {<<K_user_id, K_month, K_text>>,
                           <<K_user_id, K_month, K_text, K_active_next_month>>}

\* the strings joined by newlines
RECURSIVE JoinLines(_)
JoinLines(ts) ==
  IF ts = <<>> THEN <<>>
  ELSE IF Len(ts) = 1 THEN ts[1]
  ELSE ts[1] \o <<"\n">> \o JoinLines(Tail(ts))

\* a month string YYYY-MM with a month number 01..12
CanonicalMonth(m) ==
  /\ Len(m) = 7
  /\ MonthPatternAt(m, 0)
  /\ DigitsValue(SubSeq(m, 6, 7), 0) \in 1..12

\* n is the calendar successor of m, both canonical months
YearOf(m) == DigitsValue(SubSeq(m, 1, 4), 0)
MonthOf(m) == DigitsValue(SubSeq(m, 6, 7), 0)
IsSuccessor(m, n) ==
  /\ CanonicalMonth(m) /\ CanonicalMonth(n)
  /\ \/ MonthOf(m) < 12 /\ YearOf(n) = YearOf(m) /\ MonthOf(n) = MonthOf(m) + 1
     \/ MonthOf(m) = 12 /\ YearOf(n) = YearOf(m) + 1 /\ MonthOf(n) = 1

\* C1: in the aggregate shape, every line of a user-month record's text is the
\* value of the text column of one of the raw rows of that user and month.
C1_TextFromTextColumn ==
  AggregateShape =>
    \A i \in 1..Len(userMonthRows) :
      LET r == userMonthRows[i]
          from == Contributing(r)
          lines == Split(r.text, "\n", <<>>)
      IN  \A k \in 1..Len(lines) :
            \E j \in 1..Len(from) : lines[k] = Or(Get(rawRows[from[j]], K_text), <<>>)

\* C2: with the default keywords and the two rows of the end-to-end scenario,
\* u1's record of 2025-09 has the dominant persona trust_erosion.
C2_ScenarioSeptemberTrustErosion ==
  (csvText = E2E_TEXT /\ keywords = DEFAULT_KEYWORDS) =>
    \E i \in 1..Len(classified) :
      /\ classified[i].user_id = U1
      /\ classified[i].month = M09
      /\ classified[i].dominant_persona = "trust_erosion"

\* the priorities the claim lists
C3_Priority ==
  [trust_erosion |-> 1, emotional |-> 2, escalation |-> 3, reliability |-> 4,
   overload |-> 5, veteran |-> 6, suggestion |-> 7]

\* C3: the dominant persona of every classified record is the flagged persona
\* of the lowest priority number, and there is none exactly when no flag is
\* true; flagged for veteran and trust_erosion, it is trust_erosion.
C3_DominantIsLowestPriorityFlag ==
  \A i \in 1..Len(classified) :
    LET c == classified[i]
        flagged == {p \in PersonaKeys : c.flags[p]}
    IN  /\ (c.dominant_persona = NoPersona) <=> (flagged = {})
        /\ flagged # {} =>
             /\ c.dominant_persona \in flagged
             /\ \A p \in flagged : C3_Priority[c.dominant_persona] <= C3_Priority[p]
        /\ (c.flags["veteran"] /\ c.flags["trust_erosion"]) =>
             c.dominant_persona = "trust_erosion"

C3_Witness ==
  \E i \in 1..Len(classified) :
    /\ classified[i].flags["veteran"]
    /\ classified[i].flags["trust_erosion"]
    /\ classified[i].dominant_persona = "trust_erosion"

\* C4: every aggregate has retained + churned = users, retention = retained /
\* users and 0 <= retention <= 1, in both modes.
C4_AggregateConsistent ==
  \A i \in 1..Len(outRows) :
    LET a == outRows[i]
    IN  /\ a.retained + a.churned = a.users
        /\ a.users > 0
        /\ a.retention[2] > 0
        /\ a.retention[1] * a.users = a.retained * a.retention[2]
        /\ 0 <= a.retention[1] /\ a.retention[1] <= a.retention[2]

\* an aggregate of two users, one retained and one churned, in multi mode
C4_Witness ==
  /\ dominanceMode = "multi"
  /\ \E i \in 1..Len(outRows) :
       outRows[i].users = 2 /\ outRows[i].retained = 1 /\ outRows[i].churned = 1

\* C5: no two user-month records have the same user_id and month.
C5_OneRecordPerUserMonth ==
  \A i, j \in 1..Len(userMonthRows) :
    (userMonthRows[i].user_id = userMonthRows[j].user_id
       /\ userMonthRows[i].month = userMonthRows[j].month) => i = j

\* two raw rows of one user and month, merged into one record
C5_Witness ==
  \E i \in 1..Len(userMonthRows) : Len(Contributing(userMonthRows[i])) >= 2

\* C6: a record without explicit active_next_month is resolved to true exactly
\* when there is a record of the same user in the calendar-successor month.
C6_InferredFromSuccessorMonth ==
  \A i \in 1..Len(userMonthRows) :
    (userMonthRows[i].active_next_month = <<>>
       /\ CanonicalMonth(userMonthRows[i].month)) =>
      \E k \in 1..Len(classified) :
        /\ classified[k].user_id = userMonthRows[i].user_id
        /\ classified[k].month = userMonthRows[i].month
        /\ classified[k].active_next_month
             <=> (\E j \in 1..Len(userMonthRows) :
                    /\ userMonthRows[j].user_id = userMonthRows[i].user_id
                    /\ IsSuccessor(userMonthRows[i].month, userMonthRows[j].month))

\* the aggregates of the persona of a that lie in a month before a's
C7_Earlier(a) ==
  {j \in 1..Len(outRows) :
     outRows[j].persona = a.persona /\ LocaleLess(outRows[j].month, a.month)}

\* C7: the first aggregate of a persona has null deltas, and a later one has
\* the differences to the persona's aggregate of the latest earlier month.
C7_DeltaAgainstPrecedingAggregate ==
  \A i \in 1..Len(outRows) :
    LET a == outRows[i]
        earlier == C7_Earlier(a)
    IN  IF earlier = {}
        THEN a.users_mom = Null /\ a.retention_mom = Null
        ELSE LET p == outRows[CHOOSE j \in earlier :
                        \A k \in earlier : ~LocaleLess(outRows[j].month, outRows[k].month)]
             IN  /\ a.users_mom = Some(a.users - p.users)
                 /\ a.retention_mom = Some(FracSub(a.retention, p.retention))

\* a persona with aggregates in 2025-08 and 2025-10 and none in 2025-09: the
\* deltas of 2025-10 are not null, and the retention has changed
C7_Witness ==
  \E i, j \in 1..Len(outRows) :
    /\ outRows[i].persona = outRows[j].persona
    /\ outRows[j].month = M08 /\ outRows[i].month = M10
    /\ \A k \in 1..Len(outRows) :
         outRows[k].persona = outRows[i].persona => outRows[k].month # M09
    /\ outRows[i].users_mom # Null
    /\ outRows[i].retention_mom # Null /\ outRows[i].retention_mom # Some(<<0, 1>>)

\* the users of the records that count for persona p in month m under the mode
C8_Users(m, p) ==
  {classified[i].user_id : i \in
     {i \in 1..Len(classified) :
        /\ classified[i].month = m
        /\ IF dominanceMode = "dominant" THEN classified[i].dominant_persona = p
           ELSE classified[i].flags[p]}}

\* C8: in dominant mode a record counts for its dominant persona only, in multi
\* mode for every flagged persona; the users of a bucket is the number of
\* distinct users that count for it, and only buckets with a user are emitted.
C8_BucketsCountByMode ==
  /\ \A i \in 1..Len(outRows) :
       /\ outRows[i].users = Cardinality(C8_Users(outRows[i].month, outRows[i].persona))
       /\ \A j \in 1..Len(outRows) :
            (outRows[j].month = outRows[i].month
               /\ outRows[j].persona = outRows[i].persona) => i = j
  /\ \A k \in 1..Len(classified) : \A p \in PersonaKeys :
       C8_Users(classified[k].month, p) # {} =>
         \E i \in 1..Len(outRows) :
           outRows[i].month = classified[k].month /\ outRows[i].persona = p

\* multi mode: a record flagged for escalation and overload is in both buckets
C8_Witness ==
  /\ dominanceMode = "multi"
  /\ \E k \in 1..Len(classified) :
       /\ classified[k].flags["escalation"] /\ classified[k].flags["overload"]
       /\ \A p \in {"escalation", "overload"} :
            \E i \in 1..Len(outRows) :
              /\ outRows[i].month = classified[k].month /\ outRows[i].persona = p
              /\ outRows[i].users >= 1

\* C9: the text of a user-month record is the newline-join of the texts of its
\* raw rows in input order, n rows giving n - 1 newlines.
C9_TextIsNewlineJoin ==
  \A i \in 1..Len(userMonthRows) :
    LET from == Contributing(userMonthRows[i])
    IN  userMonthRows[i].text =
          JoinLines([k \in 1..Len(from) |->
                       Or(pickSuggestionText(rawRows[from[k]]), <<>>)])

\* C10: the month of every user-month record is a calendar month YYYY-MM with
\* a month number 01..12.
C10_MonthIsCalendarMonth ==
  \A i \in 1..Len(userMonthRows) : CanonicalMonth(userMonthRows[i].month)

\* the user id columns in the order of the normalizer
IdColumns == <<K_user_id, K_userid, K_user, K_Network_ID, K_network_id>>

\* the raw row r holds a non-empty value in one of the user id columns
HoldsUserId(r) ==
  \E k \in 1..Len(IdColumns) :
    HasKey(r, IdColumns[k]) /\ Trim(Or(Get(r, IdColumns[k]), <<>>)) # <<>>

\* the month cell of the raw row r holds a calendar month
HoldsMonth(r) ==
  LET t == Trim(Or(Get(r, K_month), <<>>))
  IN  \E i \in 0..(Len(t) - 7) : CanonicalMonth(SubSeq(t, i + 1, i + 7))

\* C11: the records and the presence set are those of the raw rows that hold a
\* user id and a month, the other rows adding and changing nothing; and each
\* raw row that holds both contributes to exactly one user-month record.
C11_DroppedRowsContributeNothing ==
  LET keep(r) == HoldsUserId(r) /\ HoldsMonth(r)
      kept == SelectSeq(rawRows, keep)
  IN  /\ userMonthRows = userMonthRowsOf(kept)
      /\ presence = presenceOf(userMonthRowsOf(kept))
      /\ \A i \in 1..Len(rawRows) :
           keep(rawRows[i]) =>
             Cardinality({j \in 1..Len(userMonthRows) :
                            \E k \in 1..Len(Contributing(userMonthRows[j])) :
                              Contributing(userMonthRows[j])[k] = i}) = 1

\* the trimmed value of the first user id column of r that holds a non-empty value
FirstUserId(r) ==
  LET k == CHOOSE k \in 1..Len(IdColumns) :
             /\ HasKey(r, IdColumns[k]) /\ Trim(Or(Get(r, IdColumns[k]), <<>>)) # <<>>
             /\ \A l \in 1..(k - 1) :
                  ~(HasKey(r, IdColumns[l]) /\ Trim(Or(Get(r, IdColumns[l]), <<>>)) # <<>>)
  IN  Trim(Get(r, IdColumns[k]))

\* the records the raw row i is merged into
RecordsOf(i) ==
  {j \in 1..Len(userMonthRows) :
     \E k \in 1..Len(Contributing(userMonthRows[j])) :
       Contributing(userMonthRows[j])[k] = i}

\* C12: a raw row with a month goes into a record of the user id of its first
\* user id column that holds a non-empty value, and is dropped only when no user
\* id column holds one; the user id of every record is non-empty and trimmed.
C12_UserIdFromFirstCandidate ==
  /\ \A i \in 1..Len(rawRows) :
       HoldsMonth(rawRows[i]) =>
         IF HoldsUserId(rawRows[i])
         THEN \E j \in RecordsOf(i) : userMonthRows[j].user_id = FirstUserId(rawRows[i])
         ELSE RecordsOf(i) = {}
  /\ \A j \in 1..Len(userMonthRows) :
       userMonthRows[j].user_id # <<>>
         /\ Trim(userMonthRows[j].user_id) = userMonthRows[j].user_id

\* the spellings of 1, true, yes and y in upper and lower case
TrueSpellings ==
  {<<"1">>, <<"t","r","u","e">>, <<"t","r","u","E">>, <<"t","r","U","e">>,
   <<"t","r","U","E">>, <<"t","R","u","e">>, <<"t","R","u","E">>, <<"t","R","U","e">>,
   <<"t","R","U","E">>, <<"T","r","u","e">>, <<"T","r","u","E">>, <<"T","r","U","e">>,
   <<"T","r","U","E">>, <<"T","R","u","e">>, <<"T","R","u","E">>, <<"T","R","U","e">>,
   <<"T","R","U","E">>, <<"y","e","s">>, <<"y","e","S">>, <<"y","E","s">>,
   <<"y","E","S">>, <<"Y","e","s">>, <<"Y","e","S">>, <<"Y","E","s">>, <<"Y","E","S">>,
   <<"y">>, <<"Y">>}

\* C13: a record with a non-empty merged active_next_month is resolved to true
\* exactly when that string is a spelling of 1, true, yes or y, whether or not
\* the user has a record in the successor month.
C13_ExplicitValueDecides ==
  \A i \in 1..Len(userMonthRows) :
    userMonthRows[i].active_next_month # <<>> =>
      \E k \in 1..Len(classified) :
        /\ classified[k].user_id = userMonthRows[i].user_id
        /\ classified[k].month = userMonthRows[i].month
        /\ classified[k].active_next_month
             <=> userMonthRows[i].active_next_month \in TrueSpellings

\* a record with the explicit value no, resolved to false while the user has a
\* record in the successor month
C13_Witness ==
  \E i, j \in 1..Len(classified) :
    /\ userMonthRows[i].active_next_month = <<"n", "o">>
    /\ classified[i].user_id = classified[j].user_id
    /\ IsSuccessor(classified[i].month, classified[j].month)
    /\ ~classified[i].active_next_month

\* the trimmed active_next_month cells of the raw rows merged into the record r,
\* in input order
ExplicitValues(r) ==
  LET from == Contributing(r)
  IN  [k \in 1..Len(from) |->
         Trim(Or(Get(rawRows[from[k]], K_active_next_month), <<>>))]

\* C14: the merged active_next_month of a record is the value of the last
\* contributing row whose value is non-empty, and empty only when the value of
\* every contributing row is empty.
C14_LastNonEmptyValueStands ==
  \A i \in 1..Len(userMonthRows) :
    LET vs == ExplicitValues(userMonthRows[i])
        at == {k \in 1..Len(vs) : vs[k] # <<>>}
    IN  userMonthRows[i].active_next_month =
          IF at = {} THEN <<>> ELSE vs[CHOOSE k \in at : \A l \in at : l <= k]

\* a record of two rows, the first with a value and the second without: the
\* value of the first stands
C14_Witness ==
  \E i \in 1..Len(userMonthRows) :
    LET vs == ExplicitValues(userMonthRows[i])
    IN  /\ Len(vs) = 2 /\ vs[1] # <<>> /\ vs[2] = <<>>
        /\ userMonthRows[i].active_next_month = vs[1]

\* the number of occurrences of the character c in the line
Occurrences(line, c) == Cardinality({i \in 1..Len(line) : line[i] = c})

\* the delimiter for c commas, s semicolons and t tabs
DelimiterFor(c, s, t) ==
  IF s > c /\ s >= t THEN ";" ELSE IF t > c /\ t > s THEN "\t" ELSE ","

\* the delimiter for the first line of the text
DelimiterOfText ==
  LET line == FirstLine(csvText)
  IN  DelimiterFor(Occurrences(line, ","), Occurrences(line, ";"),
                   Occurrences(line, "\t"))

\* the rows of a text without quotes and carriage returns, every line split at
\* the delimiter d: the objects of the lines after the first, keyed by the
\* trimmed names of the first, without those that are blank
RowsSplitAt(d) ==
  LET lines == Split(csvText, "\n", <<>>)
      names == Split(lines[1], d, <<>>)
      header == [c \in 1..Len(names) |-> Trim(names[c])]
      obj(k) == RowObject(header, Split(lines[k + 1], d, <<>>), Len(header))
      objs == [k \in 1..(Len(lines) - 1) |-> obj(k)]
  IN  IF \A c \in 1..Len(header) : header[c] = <<>> THEN <<>>
      ELSE SelectSeq(objs, NonEmptyObject)

\* C15: the delimiter detected on the first line is the one for its numbers of
\* commas, semicolons and tabs, a tie of commas and semicolons never giving the
\* semicolon; and every later line is split at that delimiter.
C15_DelimiterFromFirstLine ==
  /\ detectDelimiter(FirstLine(csvText)) = DelimiterOfText
  /\ (Occurrences(FirstLine(csvText), ",") = Occurrences(FirstLine(csvText), ";")
        => detectDelimiter(FirstLine(csvText)) # ";")
  /\ (Occurrences(csvText, "\"") = 0 /\ Occurrences(csvText, "\r") = 0)
        => rawRows = RowsSplitAt(DelimiterOfText)

\* a first line with one comma and one semicolon and, under it, the line with
\* the three delimiters, split at its comma
C15_Witness ==
  /\ csvText = <<"a",",","b",";","c","\n","1",",","2",";","3","\t","4">>
  /\ rawRows = << << <<<<"a">>, <<"1">>>>,
                     <<<<"b",";","c">>, <<"2",";","3","\t","4">>>> >> >>

\* every value of the object is empty after trimming
BlankObject(obj) ==
  \A c \in 1..Len(obj) : obj[c][2] = Undefined \/ Trim(obj[c][2]) = <<>>

\* C17: the text followed by one more line break parses to the rows of the text,
\* and no parsed row is blank.
C17_TrailingLineBreak ==
  /\ parseCSV(csvText \o <<"\n">>) = rawRows
  /\ \A i \in 1..Len(rawRows) : ~BlankObject(rawRows[i])

\* C17 as amended: when no quoted field of the text is left open (the number of
\* its double quotes is even), the text followed by one more line break parses
\* to the rows of the text; and no parsed row is blank.
C17_TrailingLineBreakClosedQuotes ==
  /\ Occurrences(csvText, "\"") % 2 = 0 => parseCSV(csvText \o <<"\n">>) = rawRows
  /\ \A i \in 1..Len(rawRows) : ~BlankObject(rawRows[i])

\* a first line, a line of three fields and an empty line typed after it: the
\* text ends with a line break and has one row
C17_Witness ==
  /\ csvText = <<"a",",","b",";","c","\n","1",",","2",";","3","\t","4","\n">>
  /\ Len(rawRows) = 1

\* the text begins with the sequence p
StartsWith(text, p) == Len(text) >= Len(p) /\ SubSeq(text, 1, Len(p)) = p

\* C16: when the first line under the first line of the text is the field
\* content f wrapped in double quotes with its double quotes doubled, the first
\* row has exactly f as the value of its first column: the delimiters and line
\* breaks of f end neither the field nor the row.
C16_QuotedFieldRoundTrip ==
  \A f \in QuotedContents :
    LET p == FirstLine(csvText) \o <<"\n">> \o QuoteField(f)
    IN  (StartsWith(csvText, p) /\ (Len(csvText) = Len(p) \/ csvText[Len(p) + 1] = "\n"))
          => /\ rawRows # <<>>
             /\ rawRows[1][1][2] = f
             /\ \A c \in 2..Len(rawRows[1]) : rawRows[1][c][2] = Undefined

\* the line "a,""b"",c" under a first line with a comma: one row, whose first
\* column has the value a,"b",c
C16_Witness ==
  /\ csvText = <<"a",",","b",";","c","\n","\"","a",",","\"","\"","b","\"","\"",",","c","\"">>
  /\ Len(rawRows) = 1
  /\ rawRows[1][1] = << <<"a">>, <<"a",",","\"","b","\"",",","c">> >>

\* C18: whenever the CSV text gives no user-month record, the message of zero
\* parsed rows is shown, whether the text came from a file, from the text area
\* or from Load sample.
C18_ZeroRecordsMessageShown ==
  userMonthRows = <<>> => csvError = ParsedZeroRows

\* C19: the text of a file whose read ends replaces the CSV text only when that
\* file is the input that was submitted last: a read that started before a later
\* input never overwrites it.
C19_LastWriteWins ==
  [][(Len(readers') < Len(readers) /\ csvText' # csvText) => csvText' = lastSubmitted]_vars

OctoberText ==
  <<"N","o","g"," ","s","t","e","e","d","s"," ","o","n","b","e","t","r","o","u","w","b","a","a","r","."," ","K","l","a","a","r"," ","m","e","e",".">>

LastMonthRow(p) ==
  LET isLast(r) == r.month = computed.months[Len(computed.months)] /\ r.persona = p
  IN  SelectSeq(computed.outRows, isLast)

\* every aggregate of the personas ps in the last month has at least minUsers users
AtThreshold(ps) ==
  \A p \in ps : \A i \in 1..Len(LastMonthRow(p)) : LastMonthRow(p)[i].users >= minUsers

\* C21: no table row and no alert comes from a persona-month aggregate with
\* fewer users than the Min users threshold.
C21_NoiseGuard ==
  LET notes == riskNotes(computed, minUsers)
      table == filteredRows(computed.outRows, minUsers)
      shown(title) == \E k \in 1..Len(notes) : notes[k] = title
  IN  /\ \A i \in 1..Len(table) : table[i].users >= minUsers
      /\ shown("Trust erosion expanding + retention falling") => AtThreshold({"trust_erosion"})
      /\ shown("Constructive feedback drying up") => AtThreshold({"suggestion", "emotional"})
      /\ shown("Escalation rising") => AtThreshold({"escalation"})

\* the i-th record has no explicit active_next_month and lies in the last
\* observed month: no record has a greater month
C22_InLastMonth(i) ==
  /\ userMonthRows[i].active_next_month = <<>>
  /\ \A j \in 1..Len(userMonthRows) :
       ~CodeUnitLess(userMonthRows[i].month, userMonthRows[j].month)

\* the i-th record counts for persona p under the mode
C22_CountsFor(i, p) ==
  IF dominanceMode = "dominant" THEN classified[i].dominant_persona = p
  ELSE classified[i].flags[p]

\* C22: every record of the last observed month without an explicit
\* active_next_month is resolved to false, and every bucket it counts for has
\* all such records among its churned users.
C22_LastMonthResolvedFalse ==
  \A i \in 1..Len(userMonthRows) :
    C22_InLastMonth(i) =>
      /\ classified[i].active_next_month = FALSE
      /\ \A p \in PersonaKeys :
           C22_CountsFor(i, p) =>
             \E k \in 1..Len(outRows) :
               /\ outRows[k].month = classified[i].month
               /\ outRows[k].persona = p
               /\ outRows[k].churned >=
                    Cardinality({j \in 1..Len(userMonthRows) :
                                   C22_InLastMonth(j) /\ C22_CountsFor(j, p)})

\* after a record of the same user in an earlier month, a record of the last
\* observed month without an explicit value is resolved to false and counted
\* as churned in a bucket
C22_Witness ==
  \E i, j \in 1..Len(userMonthRows) :
    /\ C22_InLastMonth(i)
    /\ userMonthRows[j].user_id = userMonthRows[i].user_id
    /\ CodeUnitLess(userMonthRows[j].month, userMonthRows[i].month)
    /\ classified[i].active_next_month = FALSE
    /\ \E k \in 1..Len(outRows) :
         /\ outRows[k].month = classified[i].month
         /\ C22_CountsFor(i, outRows[k].persona)
         /\ outRows[k].churned >= 1

\* C23: for every record whose month is a string YYYY-MM with a month number
\* 01..12, nextMonth of that month is the string YYYY-MM of the calendar
\* successor, the string a record of the following month has.
C23_NextMonthIsSuccessor ==
  \A i \in 1..Len(userMonthRows) :
    CanonicalMonth(userMonthRows[i].month) =>
      IsSuccessor(userMonthRows[i].month, nextMonth(userMonthRows[i].month))

\* C24: when the read of an uploaded file fails, the error message is "Could
\* not read the file.", the CSV text and the memos derived from it stay as they
\* are, and the file input is reset; the start of the upload leaves the text and
\* the memos as they are too.
C24_ReadErrorLeavesText ==
  [][/\ (\E i \in 1..Len(readers) : ReaderOnerror(i)) =>
          /\ csvError' = CouldNotRead
          /\ csvText' = csvText
          /\ memos' = memos
          /\ inputValue' = ""
     /\ (\E f \in Files : HandleUpload(f)) =>
          /\ csvText' = csvText
          /\ memos' = memos]_vars

\* after a failed read of an upload over the sample: the message is shown, the
\* text is still the sample, the input is reset and no read is under way
C24_Witness ==
  /\ csvError = CouldNotRead
  /\ csvInfo # <<>>
  /\ csvText = SAMPLE
  /\ rawRows = parseCSV(SAMPLE)
  /\ inputValue = ""
  /\ readers = <<>>

\* C25: a step by which the user replaces the CSV text (a text-area edit or
\* Load sample: the text changes and no read starts or ends) leaves no error
\* message displayed.
C25_ErrorGoneAfterEdit ==
  [][(csvText' # csvText /\ readers' = readers) => csvError' = ""]_vars

\* the sum of users over the first k aggregates that lie in month m
RECURSIVE C26_SumUsers(_, _)
C26_SumUsers(m, k) ==
  IF k = 0 THEN 0
  ELSE (IF outRows[k].month = m THEN outRows[k].users ELSE 0) + C26_SumUsers(m, k - 1)

\* the user-month records of month m
C26_Records(m) == {i \in 1..Len(classified) : classified[i].month = m}

\* C26: in dominant mode, the users of the persona aggregates of a month sum to
\* at most the number of user-month records of that month, and to exactly that
\* number when and only when every record of the month has a dominant persona.
C26_DominantBucketsPartition ==
  dominanceMode = "dominant" =>
    \A i \in 1..Len(classified) :
      LET m == classified[i].month
          sum == C26_SumUsers(m, Len(outRows))
      IN  /\ sum <= Cardinality(C26_Records(m))
          /\ sum = Cardinality(C26_Records(m))
               <=> \A j \in C26_Records(m) : classified[j].dominant_persona # NoPersona

\* dominant mode, a month with two records: one is flagged for two personas and
\* counted once, the other has no persona; the users of the month sum to 1
C26_Witness ==
  /\ dominanceMode = "dominant"
  /\ \E i, j \in 1..Len(classified) :
       /\ classified[i].month = classified[j].month
       /\ classified[i].dominant_persona # NoPersona
       /\ Cardinality({p \in PersonaKeys : classified[i].flags[p]}) >= 2
       /\ classified[j].dominant_persona = NoPersona
       /\ C26_SumUsers(classified[i].month, Len(outRows)) = 1

\* the scanner's state after n iterations over the CSV text
C27_After(n) ==
  ScanSteps(StripBOM(csvText), detectDelimiter(FirstLine(StripBOM(csvText))), ScanInit, n)

\* the scanner's state after one more iteration from s
C27_Step(s) ==
  ScanStep(StripBOM(csvText), detectDelimiter(FirstLine(StripBOM(csvText))), s)

\* the position of the only double quote of the text
C27_QuoteAt == CHOOSE q \in 1..Len(csvText) : csvText[q] = "\""

\* the last field of the last row the scanner returns
C27_LastField ==
  LET rows == ScanRows(StripBOM(csvText), detectDelimiter(FirstLine(StripBOM(csvText))))
  IN  rows[Len(rows)][Len(rows[Len(rows)])]

\* C27: on every CSV text, each iteration of the scanner loop moves the read
\* position forward by at least one character and never beyond the end, so that
\* the loop ends with the position at the end of the text and parseCSV gives its
\* rows; when a quote is opened and never closed, the rest of the text after it
\* is the end of the last field.
C27_ScannerAdvances ==
  LET len == Len(StripBOM(csvText))
  IN  /\ \A n \in 0..len :
           C27_After(n).i < len =>
             /\ C27_Step(C27_After(n)).i > C27_After(n).i
             /\ C27_Step(C27_After(n)).i <= len
      /\ C27_After(len).i = len
      /\ rawRows = parseCSV(csvText)
      /\ (Occurrences(csvText, "\"") = 1 /\ C27_QuoteAt < Len(csvText)) =>
           /\ C27_After(len).inQuotes
           /\ Len(C27_LastField) >= Len(csvText) - C27_QuoteAt
           /\ SubSeq(C27_LastField,
                     Len(C27_LastField) - (Len(csvText) - C27_QuoteAt) + 1,
                     Len(C27_LastField))
                = SubSeq(csvText, C27_QuoteAt + 1, Len(csvText))

\* a quote opened in the first line under the header and never closed: the one
\* row has the rest of the text, with its delimiters and line break, as a value
C27_Witness ==
  /\ csvText = <<"a",",","b",";","c","\n","\"","5",";","6","\n","1",",","2",";","3","\t","4">>
  /\ Len(rawRows) = 1
  /\ rawRows[1][1] = << <<"a">>, <<"5",";","6","\n","1",",","2",";","3","\t","4">> >>

====
